---- MODULE Spec2Model ----
(***************************************************************************)
(* Model of src/Dictionary.cpp: DictionaryImpl, a chained hash table of    *)
(* words keyed by their sorted letters, with growth up to maxBuckets.      *)
(*                                                                         *)
(* A string is a sequence of character codes (ASCII), so that isalpha,     *)
(* tolower and std::sort are computed on the characters themselves.        *)
(***************************************************************************)
EXTENDS Integers, Sequences, FiniteSets, Bags, TLC

VARIABLES
    max_buckets,  \* the int passed to DictionaryImpl(int max_buckets)
    m_maxB,       \* const unsigned int m_maxB
    m_B,          \* unsigned int m_B: number of buckets
    m_N,          \* unsigned int m_N: number of insert calls counted
    m_words,      \* list<string>** m_words: array 0..m_B-1 of chains
    hashOf,       \* the outcome of std::hash<string> on each key (fixed per run)
    pc,           \* "ready", or "fault" once undefined behaviour was executed
    log,          \* history: the arguments of the insert calls, in call order
    lastCall,     \* history: the most recent call, [op, arg, callback]
    visited       \* history: the strings passed to callback by the most recent call

vars == <<max_buckets, m_maxB, m_B, m_N, m_words, hashOf, pc, log, lastCall, visited>>

table == <<m_maxB, m_B, m_N, m_words>>

----------------------------------------------------------------------------
(* Bounds of the model *)

\* number of insert calls explored in one run
MaxInserts == 8

\* number of insert calls explored in the runs on the six-letter words
MaxScenarioInserts == 4

\* number of insert calls explored in the runs that insert one word again and
\* again: 10 buckets become 20 at the 8th, 40 at the 15th, 80 at the 29th
MaxDeepInserts == 29

\* insert calls of SpecTwice: the second growth of a table comes with the 15th
MaxTwiceInserts == 15

\* insert calls of SpecTwice with another word than "Dog!"
MaxTwiceOthers == 2

\* width of unsigned int in the model (the build has 32; 2^32 is outside
\* TLC's integers).  int has the same width, two's complement.
UIntBits == 16

----------------------------------------------------------------------------
(* Program constants *)

\* line 34: m_B = m_maxB > 10 ? 10 : m_maxB
InitialBuckets == 10

\* line 60: load factor threshold 0.7f, as the fraction LoadNum / LoadDen
LoadNum == 7
LoadDen == 10

----------------------------------------------------------------------------
(* Characters and strings *)

isalpha(c) == (c >= 65 /\ c <= 90) \/ (c >= 97 /\ c <= 122)

tolower(c) == IF c >= 65 /\ c <= 90 THEN c + 32 ELSE c

\* removeNonLetters(string& s): keeps the alphabetic characters, lowercased,
\* in their relative order; the value returned is s after the call.
RECURSIVE removeNonLetters(_)
removeNonLetters(s) ==
    IF s = <<>> THEN <<>>
    ELSE IF isalpha(Head(s))
         THEN <<tolower(Head(s))>> \o removeNonLetters(Tail(s))
         ELSE removeNonLetters(Tail(s))

\* c put before the first character of the sorted string s that is not below it
RECURSIVE insertSorted(_, _)
insertSorted(c, s) ==
    IF s = <<>> THEN <<c>>
    ELSE IF c <= Head(s) THEN <<c>> \o s
         ELSE <<Head(s)>> \o insertSorted(c, Tail(s))

\* std::sort(s.begin(), s.end()) on a string: characters ascending by code.
RECURSIVE sort(_)
sort(s) ==
    IF s = <<>> THEN <<>> ELSE insertSorted(Head(s), sort(Tail(s)))

\* The key of a caller's string: sorted letters of the stripped string.
canonicalKey(s) == sort(removeNonLetters(s))

----------------------------------------------------------------------------
(* The strings of the runs *)

str_DogX   == <<68, 111, 103, 33>>               \* "Dog!"
str_god    == <<103, 111, 100>>                  \* "god"
str_dog    == <<100, 111, 103>>                  \* "dog"
str_GxOD   == <<71, 45, 79, 32, 68>>             \* "G-O D"
str_dgo    == <<100, 103, 111>>                  \* "dgo"
str_g0d    == <<103, 48, 100>>                   \* "g0d"
str_c      == <<99>>                             \* "c"
str_7      == <<55>>                             \* "7"
str_empty  == <<>>                               \* ""
str_123    == <<49, 50, 51>>                     \* "123"
str_spaces == <<32, 32, 32>>                     \* "   "
str_listen == <<108, 105, 115, 116, 101, 110>>   \* "listen"
str_enlist == <<101, 110, 108, 105, 115, 116>>   \* "enlist"
str_banana == <<98, 97, 110, 97, 110, 97>>       \* "banana"
str_inlets == <<105, 110, 108, 101, 116, 115>>   \* "inlets"
str_silent == <<115, 105, 108, 101, 110, 116>>   \* "silent"

\* values std::hash may give a key: 3 and 13 share a bucket of 10 and part
\* at 15 and 20; 3 and 18 are apart at 10 and 20 and meet at 15.
HashVals == {3, 13, 18}

KeysOf(strs) == {canonicalKey(s) : s \in strs} \ {<<>>}

----------------------------------------------------------------------------
(* The table *)

nullBucket == [alloc |-> FALSE, list |-> <<>>]

\* new list<string>*[n] with every pointer set to nullptr (lines 35-38, 65-68)
newArray(n) == [i \in 0..(n - 1) |-> nullBucket]

\* conversion of an int to unsigned int (line 33, m_maxB(max_buckets))
toUnsigned(n) == n % (2 ^ UIntBits)

\* DictionaryImpl::hash (line 54), for a table of B buckets
hash(sortedkey, B) == hashOf[sortedkey] % B

\* variant: the word goes to the front of the chain
pushFront(arr, bucket, word) ==
    [arr EXCEPT ![bucket] = [alloc |-> TRUE, list |-> <<word>> \o @.list]]

\* lines 78-79 and 101-102: allocate the chain if absent, then push_back
pushBack(arr, bucket, word) ==
    [arr EXCEPT ![bucket] = [alloc |-> TRUE, list |-> @.list \o <<word>>]]

\* variant: each old chain is walked from its end to its beginning
RECURSIVE chainsFromBackwards(_, _, _)
chainsFromBackwards(arr, i, n) ==
    IF i >= n THEN <<>>
    ELSE [j \in 1..Len(arr[i].list) |-> arr[i].list[Len(arr[i].list) + 1 - j]]
         \o chainsFromBackwards(arr, i + 1, n)

\* the words of arr[i..], in bucket-index order then chain order (lines 72-74)
RECURSIVE chainsFrom(_, _, _)
chainsFrom(arr, i, n) ==
    IF i >= n THEN <<>> ELSE arr[i].list \o chainsFrom(arr, i + 1, n)

RECURSIVE transfer(_, _, _)

\* variant: the sorted copy is pushed in place of the word
RECURSIVE transferSortedCopy(_, _, _)
transferSortedCopy(ws, newArr, B) ==
    IF ws = <<>> THEN newArr
    ELSE transferSortedCopy(Tail(ws),
             pushBack(newArr, hash(sort(Head(ws)), B), sort(Head(ws))), B)

\* variant: the words are pushed to the front of their new chain
RECURSIVE transferToFront(_, _, _)
transferToFront(ws, newArr, B) ==
    IF ws = <<>> THEN newArr
    ELSE transferToFront(Tail(ws),
             pushFront(newArr, hash(sort(Head(ws)), B), Head(ws)), B)

\* lines 75-79 for each word of ws in turn: sort a copy, hash it under the
\* new bucket count B, push the word itself
transfer(ws, newArr, B) ==
    IF ws = <<>> THEN newArr
    ELSE transfer(Tail(ws), pushBack(newArr, hash(sort(Head(ws)), B), Head(ws)), B)

\* variant: growth as soon as the load factor reaches 0.7
needsRehashAtThreshold(B, N, maxB) == B < maxB /\ N * LoadDen >= LoadNum * B

\* variant: growth only when there are more items than buckets
needsRehashAboveOne(B, N, maxB) == B < maxB /\ N > B

\* line 60: m_B < m_maxB && m_N / static_cast<float>(m_B) > 0.7f.
\* For the counts of the model (far below 2^24) the float quotient compares
\* with 0.7f as the exact quotient compares with 7/10.
needsRehash(B, N, maxB) == B < maxB /\ N * LoadDen > LoadNum * B

\* variant: the size doubles whatever maxBuckets is
grownSizeDoubled(B, maxB) == toUnsigned(2 * B)

\* line 62: 2*m_B < m_maxB ? 2*m_B : m_maxB, in unsigned arithmetic
grownSize(B, maxB) ==
    IF toUnsigned(2 * B) < maxB THEN toUnsigned(2 * B) ELSE maxB

\* variant: growth is decided on the count before this insert
tryRehashStaleCount(B, N, maxB, arr) ==
    IF needsRehash(B, N - 1, maxB)
    THEN LET newB == grownSize(B, maxB)
         IN  [B |-> newB,
              words |-> transfer(chainsFrom(arr, 0, B), newArray(newB), newB)]
    ELSE [B |-> B, words |-> arr]

\* variant: no test of m_B against m_maxB, the size always doubles
tryRehashUncapped(B, N, maxB, arr) ==
    IF N * LoadDen > LoadNum * B
    THEN LET newB == toUnsigned(2 * B)
         IN  [B |-> newB,
              words |-> transfer(chainsFrom(arr, 0, B), newArray(newB), newB)]
    ELSE [B |-> B, words |-> arr]

\* variant: the words are hashed under the old bucket count
tryRehashOldCount(B, N, maxB, arr) ==
    IF needsRehash(B, N, maxB)
    THEN LET newB == grownSize(B, maxB)
         IN  [B |-> newB,
              words |-> transfer(chainsFrom(arr, 0, B), newArray(newB), B)]
    ELSE [B |-> B, words |-> arr]

\* DictionaryImpl::tryRehash: the table [B, words] after the call, given the
\* already incremented N
tryRehash(B, N, maxB, arr) ==
    IF needsRehash(B, N, maxB)
    THEN LET newB == grownSize(B, maxB)
         IN  [B |-> newB,
              words |-> transfer(chainsFrom(arr, 0, B), newArray(newB), newB)]
    ELSE [B |-> B, words |-> arr]

\* variant: the sorted copy is stored in place of the word
storeSortedCopy(t, word) ==
    LET w == removeNonLetters(word)
    IN  IF w # <<>>
        THEN pushBack(t.words, hash(sort(w), t.B), sort(w))
        ELSE t.words

\* variant: no test for the empty string (its hash taken as 0)
storeLetterless(t, word) ==
    LET w == removeNonLetters(word)
    IN  pushBack(t.words, IF w # <<>> THEN hash(sort(w), t.B) ELSE 0, w)

\* variant: the word is pushed as the caller gave it
storeOriginal(t, word) ==
    LET w == removeNonLetters(word)
    IN  IF w # <<>>
        THEN pushBack(t.words, hash(sort(w), t.B), word)
        ELSE t.words

\* lines 96-103: what insert stores in the table t = [B, words] after tryRehash
store(t, word) ==
    LET w == removeNonLetters(word)
    IN  IF w # <<>>
        THEN pushBack(t.words, hash(sort(w), t.B), w)
        ELSE t.words

\* variant: every word of the bucket is taken for a match
matchesWholeChain(chain, letters) == chain

\* lines 130-137: the strings of chain passed to callback, in chain order
RECURSIVE matches(_, _)
matches(chain, letters) ==
    IF chain = <<>> THEN <<>>
    ELSE (IF sort(Head(chain)) = letters THEN <<Head(chain)>> ELSE <<>>)
         \o matches(Tail(chain), letters)

\* variant: no test for the null callback
lookupNoNullTest(letters, callback) ==
    LET s == removeNonLetters(letters)
    IN  IF s = <<>> THEN <<>>
        ELSE LET bucket == hash(sort(s), m_B)
             IN  IF ~m_words[bucket].alloc THEN <<>>
                 ELSE matches(m_words[bucket].list, sort(s))

\* variant: the words are compared with the letters before they are sorted
lookupComparesUnsorted(letters, callback) ==
    IF ~callback THEN <<>>
    ELSE LET s == removeNonLetters(letters)
         IN  IF s = <<>> THEN <<>>
             ELSE LET bucket == hash(sort(s), m_B)
                  IN  IF ~m_words[bucket].alloc THEN <<>>
                      ELSE matches(m_words[bucket].list, s)

\* DictionaryImpl::lookup: the sequence of callback invocations
lookup(letters, callback) ==
    IF ~callback THEN <<>>
    ELSE LET s == removeNonLetters(letters)
         IN  IF s = <<>> THEN <<>>
             ELSE LET bucket == hash(sort(s), m_B)
                  IN  IF ~m_words[bucket].alloc THEN <<>>
                      ELSE matches(m_words[bucket].list, sort(s))

----------------------------------------------------------------------------
(* Construction *)

\* DictionaryImpl::DictionaryImpl(int max_buckets), lines 33-39, for
\* max_buckets drawn from sizes and std::hash being one of hashes
Construct(sizes, hashes) ==
    /\ max_buckets \in sizes
    /\ m_maxB = toUnsigned(max_buckets)
    /\ m_N = 0
    /\ m_B = (IF m_maxB > InitialBuckets THEN InitialBuckets ELSE m_maxB)
    /\ m_words = newArray(m_B)
    /\ hashOf \in hashes
    /\ pc = "ready"
    /\ log = <<>>
    /\ lastCall = [op |-> "new", arg |-> <<>>, callback |-> FALSE]
    /\ visited = <<>>

----------------------------------------------------------------------------
(* Operations *)

\* hash() computes % m_B: with m_B = 0 this is a division by zero, undefined
\* behaviour, reached by insert and lookup once the string has a letter.
\* Whether the division traps or the index it yields is used on the
\* zero-length array, the run is lost: pc becomes "fault".
dividesByZero(B, s) == B = 0 /\ removeNonLetters(s) # <<>>

\* variant: only the words that are stored are counted
countStored(N, word) ==
    IF removeNonLetters(word) # <<>> THEN toUnsigned(N + 1) ELSE N

\* line 92: m_N++, whatever the word
countAfter(N, word) == toUnsigned(N + 1)

\* DictionaryImpl::insert(string word), lines 90-103
Insert(word) ==
    /\ pc = "ready"
    /\ \E N \in {countAfter(m_N, word)} :
       \E t \in {tryRehash(m_B, N, m_maxB, m_words)} :
           /\ m_N' = N
           /\ m_B' = t.B
           /\ IF dividesByZero(t.B, word)
              THEN /\ pc' = "fault"
                   /\ m_words' = t.words
              ELSE /\ pc' = "ready"
                   /\ m_words' = store(t, word)
    /\ log' = Append(log, word)
    /\ lastCall' = [op |-> "insert", arg |-> word, callback |-> FALSE]
    /\ visited' = <<>>
    /\ UNCHANGED <<max_buckets, m_maxB, hashOf>>

\* variant: a lookup that finds no list in its bucket allocates an empty one
LookupAllocatesBucket(letters, callback) ==
    /\ pc = "ready"
    /\ IF callback /\ dividesByZero(m_B, letters)
       THEN /\ pc' = "fault"
            /\ visited' = <<>>
            /\ m_words' = m_words
       ELSE /\ pc' = "ready"
            /\ visited' = lookup(letters, callback)
            /\ \E s \in {removeNonLetters(letters)} :
                  IF callback /\ s # <<>> /\ ~m_words[hash(sort(s), m_B)].alloc
                  THEN m_words' = [m_words EXCEPT ![hash(sort(s), m_B)].alloc = TRUE]
                  ELSE m_words' = m_words
    /\ lastCall' = [op |-> "lookup", arg |-> letters, callback |-> callback]
    /\ UNCHANGED <<max_buckets, m_maxB, m_B, m_N, hashOf, log>>

\* DictionaryImpl::lookup(string letters, void callback(string)) const,
\* lines 112-138; callback = FALSE is the null pointer
Lookup(letters, callback) ==
    /\ pc = "ready"
    /\ IF callback /\ dividesByZero(m_B, letters)
       THEN /\ pc' = "fault"
            /\ visited' = <<>>
       ELSE /\ pc' = "ready"
            /\ visited' = lookup(letters, callback)
    /\ lastCall' = [op |-> "lookup", arg |-> letters, callback |-> callback]
    /\ UNCHANGED <<max_buckets, m_maxB, m_B, m_N, m_words, hashOf, log>>

----------------------------------------------------------------------------
(* Specifications *)

\* Spec: anagrams and a word of another key, in a table that grows from 10
\* buckets to its maxBuckets = 15.  std::hash gives the key of "dog" the
\* value 3 and the key of "c" each of HashVals, so the two keys share a
\* bucket before the growth only, after it only, or always.
Sizes == {15}

Words == {str_DogX, str_god, str_c}

Queries == {str_god}

\* strings of the key of "god", and of other keys, as a caller may write them
QueryVariants == {str_god, str_dog, str_DogX, str_GxOD, str_dgo, str_g0d, str_c}

Hashes ==
    {h \in [KeysOf(Words \cup QueryVariants) -> HashVals] :
        h[canonicalKey(str_god)] = 3 /\ h[canonicalKey(str_g0d)] = 3}

Init == Construct(Sizes, Hashes)

Next ==
    \/ \E w \in Words : Len(log) < MaxInserts /\ Insert(w)
    \/ \E q \in Queries : Lookup(q, TRUE)

Spec == Init /\ [][Next]_vars

\* SpecSizes: counts and growth for every kind of size, on a one-letter word
\* and a letterless one, with and without a callback.
AllSizes == {1, 3, 10, 11, 15, 20, 40}

SizesWords == {str_c, str_7}

SizesQueries == {str_c, str_7}

InitSizes == Construct(AllSizes, [KeysOf(SizesWords \cup SizesQueries) -> HashVals])

NextSizes ==
    \/ \E w \in SizesWords : Len(log) < MaxInserts /\ Insert(w)
    \/ \E q \in SizesQueries : \E cb \in BOOLEAN : Lookup(q, cb)

SpecSizes == InitSizes /\ [][NextSizes]_vars

\* SpecDeep: one word inserted again and again, through several growths, for
\* sizes below, at, between and above the doublings of 10.
DeepSizes == {1, 3, 10, 11, 15, 20, 25, 30, 40, 41, 100}

DeepWords == {str_c}

InitDeep == Construct(DeepSizes, [KeysOf(DeepWords) -> HashVals])

NextDeep ==
    \/ \E w \in DeepWords : Len(log) < MaxDeepInserts /\ Insert(w)
    \/ \E q \in DeepWords : Lookup(q, TRUE)

SpecDeep == InitDeep /\ [][NextDeep]_vars

\* SpecOrder: two words of different keys, every hash of the two keys, in a
\* table that grows to a maxBuckets of 15 (not a multiple of 10, so two old
\* buckets can merge) and in one that doubles to 20 towards 40.
OrderSizes == {15, 40}

OrderWords == {str_god, str_c}

InitOrder == Construct(OrderSizes, [KeysOf(OrderWords) -> HashVals])

NextOrder ==
    \/ \E w \in OrderWords : Len(log) < MaxInserts /\ Insert(w)
    \/ \E q \in OrderWords : Lookup(q, TRUE)

SpecOrder == InitOrder /\ [][NextOrder]_vars

\* SpecTwice: two anagrams and a word of another key in a table that grows
\* twice, 10 -> 20 -> 25.  std::hash puts the key of the anagrams in bucket
\* 8, then 18, then 13; the other key is with it always, or from the second
\* growth on.  Most inserts are of "Dog!", the other words come at any place.
TwiceSizes == {25}

TwiceWords == {str_DogX, str_god, str_c}

TwiceQueries == {str_dgo}

TwiceHashes ==
    {h \in [KeysOf(TwiceWords \cup TwiceQueries) -> {13, 38}] :
        h[canonicalKey(str_god)] = 38}

InitTwice == Construct(TwiceSizes, TwiceHashes)

NextTwice ==
    \/ \E w \in TwiceWords :
          /\ Len(log) < MaxTwiceInserts
          /\ w # str_DogX =>
                Cardinality({i \in DOMAIN log : log[i] # str_DogX}) < MaxTwiceOthers
          /\ Insert(w)
    \/ \E q \in TwiceQueries : Lookup(q, TRUE)

SpecTwice == InitTwice /\ [][NextTwice]_vars

\* SpecScenario: the six-letter anagrams in a table of maxBuckets = 10.
ScenarioSizes == {10}

ScenarioWords == {str_listen, str_enlist, str_banana, str_inlets}

ScenarioQueries == {str_silent}

InitScenario ==
    Construct(ScenarioSizes, [KeysOf(ScenarioWords \cup ScenarioQueries) -> HashVals])

NextScenario ==
    \/ \E w \in ScenarioWords : Len(log) < MaxScenarioInserts /\ Insert(w)
    \/ \E q \in ScenarioQueries : Lookup(q, TRUE)

SpecScenario == InitScenario /\ [][NextScenario]_vars

\* SpecCtor: construction with any int, also zero and negative ones.
CtorSizes == {-1, 0, 1}

InitCtor == Construct(CtorSizes, [KeysOf(SizesWords \cup SizesQueries) -> HashVals])

SpecCtor == InitCtor /\ [][NextSizes]_vars

----------------------------------------------------------------------------
(* Vocabulary of the properties *)

Range(s) == {s[i] : i \in DOMAIN s}

CountIn(s, x) == Cardinality({i \in DOMAIN s : s[i] = x})

Last(s) == s[Len(s)]

\* every word held by the table, bucket by bucket
allStored == chainsFrom(m_words, 0, m_B)

\* the most recent call was a lookup with a callback, and it returned
Looked == lastCall.op = "lookup" /\ lastCall.callback /\ pc = "ready"

queryKey == canonicalKey(lastCall.arg)

\* the words of the insert calls so far, each as removeNonLetters leaves it
strippedLog == [i \in DOMAIN log |-> removeNonLetters(log[i])]

\* the stripped words of lg whose key is key, in call order
RECURSIVE AnagramsInOrder(_, _)
AnagramsInOrder(lg, key) ==
    IF lg = <<>> THEN <<>>
    ELSE (IF canonicalKey(Head(lg)) = key THEN <<removeNonLetters(Head(lg))>> ELSE <<>>)
         \o AnagramsInOrder(Tail(lg), key)

Grown == m_B > InitialBuckets

----------------------------------------------------------------------------
(* C1 *)

\* C1: a lookup with a callback and a query that has letters invokes the
\* callback exactly once for each earlier insert whose word has the key of
\* the query (as many visits of a stored word as inserts that stored it), and
\* never with a word of another key, also after growth and when another key
\* shares the bucket.
C1_VisitsExactlyTheAnagrams ==
    (Looked /\ queryKey # <<>>) =>
        \A key \in {queryKey} : \A stripped \in {strippedLog} :
            /\ \A x \in Range(stripped) \cup Range(visited) :
                  CountIn(visited, x) =
                      (IF canonicalKey(x) = key THEN CountIn(stripped, x) ELSE 0)
            /\ Len(visited) =
                  Cardinality({i \in DOMAIN log : sort(stripped[i]) = key})

\* a lookup after a growth that visited two different anagrams, twice one of
\* them, while a word of another key lies in the bucket of the query
C1_Witness ==
    /\ Looked /\ Grown
    /\ Len(visited) >= 3
    /\ Cardinality(Range(visited)) = 2
    /\ \E i \in DOMAIN log :
          /\ canonicalKey(log[i]) # queryKey
          /\ hash(canonicalKey(log[i]), m_B) = hash(queryKey, m_B)

----------------------------------------------------------------------------
(* C2 *)

\* C2 as stated: the chains hold, and lookup visits, the words character for
\* character as the callers passed them; after insert("Dog!"), lookup("god")
\* visits "Dog!".
C2_StoresOriginalWord ==
    /\ \A stored \in {allStored} : Range(stored) \subseteq Range(log)
    /\ Looked => Range(visited) \subseteq Range(log)
    /\ (Looked /\ lastCall.arg = str_god /\ str_DogX \in Range(log))
          => str_DogX \in Range(visited)

\* C2 amended: the chains hold each inserted word with its non-letters
\* removed and its letters lowercased, in their order (not sorted), once per
\* insert; lookup visits these stored forms; after insert("Dog!"),
\* lookup("god") visits "dog".
C2_StoresStrippedWord ==
    /\ \A stored \in {allStored} : \A stripped \in {strippedLog} :
          \A x \in Range(stripped) \cup Range(stored) :
              x # <<>> => CountIn(stored, x) = CountIn(stripped, x)
    /\ Looked => Range(visited) \subseteq Range(strippedLog)
    /\ (Looked /\ lastCall.arg = str_god /\ str_DogX \in Range(log))
          => str_dog \in Range(visited)

\* "Dog!" was inserted and lookup("god") visited "dog"
C2_Witness ==
    /\ Looked /\ lastCall.arg = str_god
    /\ str_DogX \in Range(log)
    /\ str_dog \in Range(visited)
    /\ str_DogX \notin Range(visited)

----------------------------------------------------------------------------
(* C3 *)

\* C3: every insert step, with or without a growth in it, leaves in the
\* buckets the words that were there, each as often as before, plus the one
\* word it stores.
C3_InsertKeepsWords ==
    [][log' # log =>
        \A before \in {allStored} : \A after \in {allStored'} :
            \A x \in Range(before) \cup Range(after) :
                CountIn(after, x) =
                    CountIn(before, x)
                        + (IF x = removeNonLetters(Last(log')) THEN 1 ELSE 0)]_vars

\* the insert that grew the table, with words in two buckets of the new array
C3_Witness ==
    /\ lastCall.op = "insert" /\ Grown
    /\ Len(allStored) = MaxInserts
    /\ Cardinality({i \in DOMAIN m_words : m_words[i].alloc}) >= 2

----------------------------------------------------------------------------
(* C4 *)

\* C4: the bucket count never exceeds maxBuckets, for a table built with
\* maxBuckets >= 1.
C4_BucketCountWithinMax ==
    max_buckets >= 1 => (m_B <= max_buckets /\ DOMAIN m_words = 0..(m_B - 1))

\* a table that grew twice, the second time to a maxBuckets that is not
\* twice its old size
C4_Witness ==
    /\ m_B = max_buckets
    /\ m_B > 2 * InitialBuckets /\ m_B < 4 * InitialBuckets
    /\ Len(allStored) = m_N

----------------------------------------------------------------------------
(* C5 *)

\* C5: with no growth, lookup visits the anagrams of its query in the order
\* of their inserts; with maxBuckets = 10, after the inserts of "listen",
\* "enlist", "banana", "inlets", lookup("silent") visits "listen", "enlist",
\* "inlets" in that order and not "banana".
C5_VisitsInInsertionOrder ==
    (Looked /\ ~Grown) =>
        /\ visited = AnagramsInOrder(log, queryKey)
        /\ (/\ log = <<str_listen, str_enlist, str_banana, str_inlets>>
            /\ lastCall.arg = str_silent)
              => visited = <<str_listen, str_enlist, str_inlets>>

\* the scenario itself, "banana" in the bucket of the anagrams
C5_Witness ==
    /\ Looked /\ max_buckets = 10
    /\ log = <<str_listen, str_enlist, str_banana, str_inlets>>
    /\ lastCall.arg = str_silent
    /\ visited = <<str_listen, str_enlist, str_inlets>>
    /\ hash(canonicalKey(str_banana), m_B) = hash(queryKey, m_B)

----------------------------------------------------------------------------
(* C6 *)

\* C6: construction with maxBuckets < 1 fails with InvalidConfiguration, and
\* leaves no table whose bucket count is outside 1..maxBuckets.
C6_RejectsNonPositiveSize ==
    max_buckets < 1 => (pc = "InvalidConfiguration" /\ m_B \in 1..max_buckets)

----------------------------------------------------------------------------
(* C7 *)

LetterlessStrings == {str_7, str_123, str_empty, str_spaces}

\* C7: a word without letters is never put in a bucket (the buckets hold as
\* many words as there were inserts of words with letters, none of them
\* letterless, and storing "7", "123", "" or "   " in the table as it is
\* leaves every chain as it is), no lookup visits one, and a lookup whose
\* query has no letters visits nothing.
C7_LetterlessNeverStored ==
    /\ \A w \in LetterlessStrings :
          /\ store([B |-> m_B, words |-> m_words], w) = m_words
          /\ lookup(w, TRUE) = <<>>
    /\ \A stored \in {allStored} :
          /\ \A x \in Range(stored) : canonicalKey(x) # <<>>
          /\ Len(stored) =
                Cardinality({i \in DOMAIN log : canonicalKey(log[i]) # <<>>})
    /\ Looked => \A x \in Range(visited) : canonicalKey(x) # <<>>
    /\ (Looked /\ queryKey = <<>>) => visited = <<>>

\* a lookup of a letterless query, after inserts of a letterless word and of
\* a word with letters
C7_Witness ==
    /\ Looked /\ queryKey = <<>>
    /\ str_7 \in Range(log)
    /\ allStored # <<>>

----------------------------------------------------------------------------
(* C8 *)

\* C8: a lookup with a null callback returns, visits nothing and leaves the
\* table as it was.
C8_NullCallbackNoEffect ==
    [][(lastCall'.op = "lookup" /\ ~lastCall'.callback) =>
          (visited' = <<>> /\ table' = table /\ pc' = "ready")]_vars

\* a lookup with a null callback of a word the table holds
C8_Witness ==
    /\ lastCall.op = "lookup" /\ ~lastCall.callback /\ pc = "ready"
    /\ removeNonLetters(lastCall.arg) \in Range(allStored)
    /\ visited = <<>>

----------------------------------------------------------------------------
(* C9 *)

\* C9: itemCount is the number of insert calls made so far, those of
\* letterless words included.
C9_CountsEveryInsert == m_N = Len(log)

\* inserts of letterless words counted although fewer words are stored
C9_Witness ==
    /\ m_N = Len(log)
    /\ str_7 \in Range(log)
    /\ Len(allStored) > 0
    /\ Len(allStored) < m_N

----------------------------------------------------------------------------
(* C10 *)

\* C10: a lookup visits the same words in the same order as a lookup, in the
\* same state, of any other string with the same key.
C10_SameKeySameVisits ==
    Looked =>
        \A key \in {queryKey} :
            \A q \in QueryVariants :
                canonicalKey(q) = key => lookup(q, TRUE) = visited

\* a lookup after a growth that visited two different words
C10_Witness ==
    /\ Looked /\ Grown
    /\ Cardinality(Range(visited)) >= 2
    /\ \E q \in QueryVariants : q # lastCall.arg /\ canonicalKey(q) = queryKey

----------------------------------------------------------------------------
(* C11 *)

\* C11: every word held in bucket i hashes, by its key and under the current
\* bucket count, to i, also right after a growth.
C11_WordsInTheirBucket ==
    \A i \in DOMAIN m_words :
        \A j \in DOMAIN m_words[i].list :
            hash(canonicalKey(m_words[i].list[j]), m_B) = i

\* after a growth, words of two keys that shared a bucket of the old array
\* lie in two buckets, one of them beyond the old array
C11_Witness ==
    /\ Grown
    /\ \E i \in DOMAIN m_words : i >= InitialBuckets /\ m_words[i].alloc
    /\ \E i \in DOMAIN m_words : i < InitialBuckets /\ m_words[i].alloc
    /\ \A k \in KeysOf(Words) : hash(k, InitialBuckets) = 3

----------------------------------------------------------------------------
(* C12 *)

\* the bucket counts the table has had: 10, 20, 40, ... below m_B, and m_B
PastSizes ==
    {sz \in {InitialBuckets * (2 ^ k) : k \in 0..UIntBits} : sz < m_B} \cup {m_B}

\* the keys k1 and k2 shared a bucket under every bucket count so far
SameBucketAlways(k1, k2) == \A sz \in PastSizes : hash(k1, sz) = hash(k2, sz)

\* C12 as stated: every chain lists its words in the order in which they
\* were inserted, whatever the growths.
C12_ChainsInInsertionOrder ==
    \A stripped \in {strippedLog} :
        \A i \in DOMAIN m_words :
            LET InBucket(x) == x # <<>> /\ hash(sort(x), m_B) = i
            IN  m_words[i].list = SelectSeq(stripped, InBucket)

\* C12 amended: words of a chain that shared a bucket under every bucket
\* count so far are in the order in which they were inserted (all the words
\* of the chain, as long as every growth was a doubling).
C12_InsertionOrderWithinOldBucket ==
    \A stripped \in {strippedLog} :
        \A k \in {sort(x) : x \in Range(stripped)} \ {<<>>} :
            LET Together(x) == x # <<>> /\ SameBucketAlways(sort(x), k)
            IN  SelectSeq(m_words[hash(k, m_B)].list, Together)
                    = SelectSeq(stripped, Together)

\* a growth to 15 merged two old buckets: the chain is not in insertion
\* order, and holds both words more than once
C12_Witness ==
    /\ Grown /\ m_B = max_buckets /\ m_B < 2 * InitialBuckets
    /\ \E i \in DOMAIN m_words :
          /\ Cardinality(Range(m_words[i].list)) = 2
          /\ Len(m_words[i].list) >= 4
          /\ \E j \in 1..(Len(m_words[i].list) - 1) :
                m_words[i].list[j] = str_c /\ m_words[i].list[j + 1] = str_god
          /\ hash(canonicalKey(str_c), InitialBuckets)
                # hash(canonicalKey(str_god), InitialBuckets)

----------------------------------------------------------------------------
(* C13 *)

Min(a, b) == IF a < b THEN a ELSE b

----------------------------------------------------------------------------
(* C14 *)

\* C14: insert counts the call, then decides the growth on the new count,
\* then stores the word under the bucket count the growth left; so an insert
\* of a letterless word can grow the table: with maxBuckets >= 20 the 8th of
\* eight letterless inserts turns 10 buckets into 20, every bucket empty.
C14_CountGrowStore ==
    [][log' # log =>
          \A w \in {Last(log')} :
              /\ m_N' = m_N + 1
              /\ (m_B' # m_B) <=> (m_B < max_buckets /\ 10 * m_N' > 7 * m_B)
              /\ removeNonLetters(w) # <<>> =>
                    /\ m_words'[hash(canonicalKey(w), m_B')].list # <<>>
                    /\ Last(m_words'[hash(canonicalKey(w), m_B')].list)
                          = removeNonLetters(w)
              /\ (/\ max_buckets >= 20
                  /\ Len(log') = 8
                  /\ \A i \in DOMAIN log' : canonicalKey(log'[i]) = <<>>)
                    => /\ m_B = 10
                       /\ m_B' = 20
                       /\ \A i \in DOMAIN m_words' : ~m_words'[i].alloc]_vars

\* eight letterless inserts have grown a table that holds nothing
C14_Witness ==
    /\ lastCall.op = "insert"
    /\ Len(log) = 8
    /\ \A i \in DOMAIN log : log[i] = str_7
    /\ m_B = 2 * InitialBuckets
    /\ allStored = <<>>

----------------------------------------------------------------------------
(* C15 *)

\* C15: the bucket count never decreases; once it equals maxBuckets it stays
\* there however many items follow; a table built with maxBuckets <= 10
\* never grows.
C15_BucketCountNeverShrinks ==
    [][/\ m_B' >= m_B
       /\ m_B = max_buckets => m_B' = max_buckets
       /\ max_buckets <= InitialBuckets => (m_B = max_buckets /\ m_B' = max_buckets)]_vars

\* a grown table at its maxBuckets, with more than twice as many items
C15_Witness ==
    /\ Grown
    /\ m_B = max_buckets
    /\ m_N > 2 * m_B
    /\ lastCall.op = "insert"

----------------------------------------------------------------------------
(* C16 *)

----------------------------------------------------------------------------
(* C17 *)

\* C17: a lookup, whatever its query and its callback, leaves the bucket
\* count, the item count and every chain (words and their order) as they
\* were; only the sequence of visits is its effect.
C17_LookupLeavesTable ==
    [][lastCall'.op = "lookup" =>
          /\ m_B' = m_B
          /\ m_N' = m_N
          /\ m_maxB' = m_maxB
          /\ \A i \in DOMAIN m_words : m_words'[i] = m_words[i]
          /\ DOMAIN m_words' = DOMAIN m_words
          /\ log' = log /\ hashOf' = hashOf]_vars

\* a lookup with a callback that visited words of a grown table, next to
\* buckets that hold no list
C17_Witness ==
    /\ lastCall.op = "lookup" /\ lastCall.callback /\ pc = "ready"
    /\ Grown
    /\ Len(visited) >= 2
    /\ \E i \in DOMAIN m_words : ~m_words[i].alloc

----------------------------------------------------------------------------
(* C18 *)

\* C18: in every state, whatever growths happened, the stored words of one
\* canonical key all lie in one bucket, the bucket of that key, in the order
\* of their inserts; so a lookup visits the matches of its query in the order
\* of their inserts.
C18_AnagramsTogetherInOrder ==
    /\ \A stripped \in {strippedLog} :
          \A k \in {sort(x) : x \in Range(stripped)} \ {<<>>} :
              LET HasKey(x) == sort(x) = k
              IN  /\ \A i \in DOMAIN m_words :
                        i # hash(k, m_B) =>
                            SelectSeq(m_words[i].list, HasKey) = <<>>
                  /\ SelectSeq(m_words[hash(k, m_B)].list, HasKey)
                        = SelectSeq(stripped, HasKey)
    /\ Looked => visited = AnagramsInOrder(log, queryKey)

\* after two growths a lookup visits "dog", "god", "dog", ... as inserted,
\* in a bucket that was never theirs before and that "c", inserted first,
\* shares since the second growth only
C18_Witness ==
    /\ Looked
    /\ m_B = max_buckets /\ m_B > 2 * InitialBuckets
    /\ log[1] = str_c
    /\ Len(visited) = Len(log) - 1
    /\ visited[1] = str_dog /\ visited[2] = str_god /\ visited[3] = str_dog
    /\ hash(queryKey, m_B) # hash(queryKey, InitialBuckets)
    /\ hash(queryKey, m_B) # hash(queryKey, 2 * InitialBuckets)
    /\ hash(queryKey, m_B) = hash(canonicalKey(str_c), m_B)
    /\ hash(queryKey, InitialBuckets) # hash(canonicalKey(str_c), InitialBuckets)

----------------------------------------------------------------------------
(* C19 *)

\* C19: every word in a bucket is non-empty and made of lowercase letters
\* only (removeNonLetters leaves it as it is), so sorting its characters, as
\* growth and lookup do, gives its canonical key; and every allocated chain
\* holds at least one word.
C19_StoredWordsNormalized ==
    \A i \in DOMAIN m_words :
        /\ m_words[i].alloc => m_words[i].list # <<>>
        /\ \A j \in DOMAIN m_words[i].list :
              \A x \in {m_words[i].list[j]} :
                  /\ x # <<>>
                  /\ \A c \in DOMAIN x : isalpha(x[c]) /\ tolower(x[c]) = x[c]
                  /\ removeNonLetters(x) = x
                  /\ sort(x) = canonicalKey(x)

\* "Dog!" was inserted and a grown table holds "dog" for it, next to
\* buckets without a list
C19_Witness ==
    /\ Grown
    /\ str_DogX \in Range(log)
    /\ \A ws \in {Range(allStored)} : str_dog \in ws /\ str_DogX \notin ws
    /\ \E i \in DOMAIN m_words : ~m_words[i].alloc

====
